---- MODULE Spec2Model ----
(***************************************************************************)
(* Model of pkg/scheduler/webhook.go: the mutating admission handler       *)
(* webhook.Handle, which decides whether a pod is handed to the HAMi       *)
(* scheduler.  Every evaluation (one call of Handle) is a process with     *)
(* its own decoded pod, loop position and response; the package-level     *)
(* configuration (config.SchedulerName,                                    *)
(* config.ForceOverwriteDefaultScheduler) is shared by all evaluations.    *)
(***************************************************************************)
EXTENDS Integers, Sequences, FiniteSets, TLC

\* ---------------------------------------------------------------- bounds
MaxContainers == 2

\* ------------------------------------------------------------- constants
DefaultSchedulerName == "default-scheduler"

\* the registered device vendors (device.GetDevices())
Matchers == {"vendorA", "vendorB"}

\* concurrent evaluations (parallel calls of Handle)
Procs == {1, 2}

\* ----------------------------------------------------------- input sets
SchedulerNames == {"", DefaultSchedulerName, "hami-scheduler", "custom-other"}

TargetSchedulerNames == {"", "hami-scheduler", DefaultSchedulerName}

NodeNames == {"", "node-7"}

\* ctr.SecurityContext.Privileged:
\*   "nil"   SecurityContext == nil, or SecurityContext.Privileged == nil
\*   "false" *Privileged == false
\*   "true"  *Privileged == true
PrivilegedFlags == {"nil", "false", "true"}

\* what val.MutateAdmission(c, pod) returns: (false, nil), (true, nil), (_, err)
MatchResults == {"none", "found", "err"}

\* a container: its privileged flag and, per vendor, what that vendor's
\* MutateAdmission answers for the container's resource requests
ContainerSpecs == [Privileged : PrivilegedFlags, Resources : [Matchers -> MatchResults]]

ContainerLists == UNION {[1..n -> ContainerSpecs] : n \in 0..MaxContainers}

Pods == [SchedulerName : SchedulerNames, NodeName : NodeNames, Containers : ContainerLists]

Configs == [SchedulerName : TargetSchedulerNames, ForceOverwriteDefaultScheduler : BOOLEAN]

\* ------------------------------------------------------ wire format (JSON)
\* The part of the pod object the handler reads or writes, as a JSON document:
\* a function from JSON pointers to values.  schedulerName and nodeName are
\* `omitempty` fields: an empty string is not written.
SchedulerNamePath == "/spec/schedulerName"

NodeNamePath == "/spec/nodeName"

ContainersPath == "/spec/containers"

StringPaths == {SchedulerNamePath, NodeNamePath}

Absent == "<absent>"

\* json.Marshal(pod)
Marshal(pod) ==
    (SchedulerNamePath :> (IF pod.SchedulerName = "" THEN Absent ELSE pod.SchedulerName))
    @@ (NodeNamePath :> (IF pod.NodeName = "" THEN Absent ELSE pod.NodeName))
    @@ (ContainersPath :> pod.Containers)

\* h.decoder.Decode(req, pod) on a well-formed object
Decode(raw) ==
    [SchedulerName |-> IF raw[SchedulerNamePath] = Absent THEN "" ELSE raw[SchedulerNamePath],
     NodeName |-> IF raw[NodeNamePath] = Absent THEN "" ELSE raw[NodeNamePath],
     Containers |-> raw[ContainersPath]]

\* the JSON patch (RFC 6902 operations) that turns document a into document b
JSONDiff(a, b) ==
    {[op |-> IF a[f] = Absent THEN "add" ELSE IF b[f] = Absent THEN "remove" ELSE "replace",
      path |-> f,
      value |-> IF b[f] = Absent THEN "" ELSE b[f]] : f \in {g \in StringPaths : a[g] # b[g]}}
    \cup (IF a[ContainersPath] # b[ContainersPath]
          THEN {[op |-> "replace", path |-> ContainersPath, value |-> b[ContainersPath]]}
          ELSE {})

\* the API server applying a patch to the object it sent
ApplyPatch(doc, ops) ==
    [f \in DOMAIN doc |->
        IF \E o \in ops : o.path = f
        THEN LET o == CHOOSE o \in ops : o.path = f
             IN  IF o.op = "remove" THEN Absent ELSE o.value
        ELSE doc[f]]

\* the zero value of corev1.Pod
EmptyPod == [SchedulerName |-> "", NodeName |-> "", Containers |-> <<>>]

\* admission.Request: req.Object.Raw, well-formed or not decodable
Requests ==
    {[wellformed |-> TRUE, raw |-> Marshal(o)] : o \in Pods}
    \cup {[wellformed |-> FALSE, raw |-> Marshal(EmptyPod)]}

\* ------------------------------------------------------------- responses
NoResponse == [kind |-> "none", code |-> 0, reason |-> "", patch |-> {}]

\* admission.Errored(code, err)
Errored(code, err) == [kind |-> "Errored", code |-> code, reason |-> err, patch |-> {}]

\* admission.Denied(reason)
Denied(reason) == [kind |-> "Denied", code |-> 403, reason |-> reason, patch |-> {}]

\* admission.Allowed(reason)
Allowed(reason) == [kind |-> "Allowed", code |-> 200, reason |-> reason, patch |-> {}]

\* admission.PatchResponseFromRaw(original, current)
PatchResponseFromRaw(original, current) ==
    [kind |-> "Allowed", code |-> 0, reason |-> "", patch |-> JSONDiff(original, current)]

\* ----------------------------------------------------------------- state
VARIABLES
    config,       \* config.SchedulerName, config.ForceOverwriteDefaultScheduler
    req,          \* req[p]: the admission.Request of evaluation p
    pod,          \* pod[p]: the decoded pod, local to the evaluation
    pc,           \* pc[p]: where evaluation p stands in Handle
    idx,          \* idx[p]: index of the container loop
    called,       \* called[p]: the MutateAdmission calls made, <<container, vendor>>
    hasResource,  \* hasResource[p]: the local accumulator
    resp,         \* resp[p]: the admission.Response returned
    round,        \* round[p]: 1, or 2 once the patched pod has been submitted again
    first         \* first[p]: the response of round 1, kept on resubmission

vars == <<config, req, pod, pc, idx, called, hasResource, resp, round, first>>

\* ------------------------------------------------------ helpers of Handle
\* variant: the test of *Privileged inverted
IsPrivilegedInverted(ctr) == ctr.Privileged = "false"

\* ctr.SecurityContext != nil && ctr.SecurityContext.Privileged != nil && *Privileged
IsPrivileged(ctr) == ctr.Privileged = "true"

\* the condition of the different-scheduler exit, with Go's precedence
\* (&& binds tighter than ||)
DifferentScheduler(p, cfg) ==
    (p.SchedulerName # "" /\ p.SchedulerName # DefaultSchedulerName)
    \/ (~cfg.ForceOverwriteDefaultScheduler
        /\ (cfg.SchedulerName = "" \/ p.SchedulerName # cfg.SchedulerName))

\* found, err := val.MutateAdmission(c, pod) for vendor k
MutateAdmission(ctr, k) == ctr.Resources[k]

\* what MutateAdmission leaves of the pod it is handed: the matchers only
\* inspect their arguments
MutateAdmissionEffect(p) == p

\* vendors not yet asked about the current container
Remaining(p) == {k \in Matchers : <<idx[p], k>> \notin called[p]}

Start(r) ==
    /\ pod = [p \in Procs |-> EmptyPod]
    /\ idx = [p \in Procs |-> 0]
    /\ called = [p \in Procs |-> {}]
    /\ hasResource = [p \in Procs |-> FALSE]
    /\ resp = [p \in Procs |-> NoResponse]
    /\ round = [p \in Procs |-> 1]
    /\ first = [p \in Procs |-> NoResponse]
    /\ req = r

\* one evaluation
Init ==
    /\ config \in Configs
    /\ \E r \in Requests : Start([p \in Procs |-> IF p = 1 THEN r ELSE [wellformed |-> FALSE, raw |-> Marshal(EmptyPod)]])
    /\ pc = [p \in Procs |-> IF p = 1 THEN "decode" ELSE "off"]

\* ---------------------------------------------------------------- Handle
\* variant: the different-scheduler test placed before the empty-pod test
EarlyExitSchedulerFirst(r, cfg) ==
    IF ~r.wellformed
    THEN Errored(400, "decode error")
    ELSE IF DifferentScheduler(Decode(r.raw), cfg)
    THEN Allowed("pod already has different scheduler assigned")
    ELSE IF Len(Decode(r.raw).Containers) = 0
    THEN Denied("pod has no containers")
    ELSE NoResponse

\* variant: the different-scheduler branch logs but does not return
EarlyExitNoSchedulerReturn(r, cfg) ==
    IF ~r.wellformed
    THEN Errored(400, "decode error")
    ELSE IF Len(Decode(r.raw).Containers) = 0
    THEN Denied("pod has no containers")
    ELSE NoResponse

\* The returns of Handle before the container loop, in the order of the code:
\* the decode error, the empty pod, the different scheduler; NoResponse when
\* none is taken.
EarlyExit(r, cfg) ==
    IF ~r.wellformed
    THEN Errored(400, "decode error")
    ELSE IF Len(Decode(r.raw).Containers) = 0
    THEN Denied("pod has no containers")
    ELSE IF DifferentScheduler(Decode(r.raw), cfg)
    THEN Allowed("pod already has different scheduler assigned")
    ELSE NoResponse

\* Handle up to `hasResource := false`: decode, then the early returns
Admit(p) ==
    /\ pc[p] = "decode"
    /\ pod' = [pod EXCEPT ![p] = IF req[p].wellformed THEN Decode(req[p].raw) ELSE @]
    /\ resp' = [resp EXCEPT ![p] = EarlyExit(req[p], config)]
    /\ IF resp'[p] # NoResponse
       THEN /\ pc' = [pc EXCEPT ![p] = "done"]
            /\ UNCHANGED <<idx, hasResource>>
       ELSE /\ hasResource' = [hasResource EXCEPT ![p] = FALSE]
            /\ idx' = [idx EXCEPT ![p] = 1]
            /\ pc' = [pc EXCEPT ![p] = "loop"]
    /\ UNCHANGED <<config, req, called, round, first>>

\* for idx, ctr := range pod.Spec.Containers: the loop head and the
\* privileged check
LoopContainer(p) ==
    /\ pc[p] = "loop"
    /\ IF idx[p] > Len(pod[p].Containers)
       THEN /\ pc' = [pc EXCEPT ![p] = "final"]
            /\ idx' = idx
       ELSE IF IsPrivileged(pod[p].Containers[idx[p]])
            THEN /\ idx' = [idx EXCEPT ![p] = idx[p] + 1]
                 /\ pc' = pc
            ELSE /\ pc' = [pc EXCEPT ![p] = "matchers"]
                 /\ idx' = idx
    /\ UNCHANGED <<config, req, pod, called, hasResource, resp, round, first>>

\* variant: the error of MutateAdmission is logged and the loop goes on
CallMatcherNoReturn(p) ==
    /\ pc[p] = "matchers"
    /\ \E k \in Remaining(p) :
         LET r == MutateAdmission(pod[p].Containers[idx[p]], k) IN
         /\ called' = [called EXCEPT ![p] = @ \cup {<<idx[p], k>>}]
         /\ pod' = [pod EXCEPT ![p] = MutateAdmissionEffect(@)]
         /\ hasResource' = [hasResource EXCEPT ![p] = @ \/ (r = "found")]
         /\ resp' = resp
         /\ IF Remaining(p) = {k}
            THEN /\ idx' = [idx EXCEPT ![p] = @ + 1]
                 /\ pc' = [pc EXCEPT ![p] = "loop"]
            ELSE UNCHANGED <<idx, pc>>
    /\ UNCHANGED <<config, req, round, first>>

\* variant: hasResource is a package-level variable, one for all evaluations
CallMatcherShared(p) ==
    /\ pc[p] = "matchers"
    /\ \E k \in Remaining(p) :
         LET r == MutateAdmission(pod[p].Containers[idx[p]], k) IN
         /\ called' = [called EXCEPT ![p] = @ \cup {<<idx[p], k>>}]
         /\ pod' = [pod EXCEPT ![p] = MutateAdmissionEffect(@)]
         /\ IF r = "err"
            THEN /\ resp' = [resp EXCEPT ![p] = Errored(500, "matcher error")]
                 /\ pc' = [pc EXCEPT ![p] = "done"]
                 /\ UNCHANGED <<idx, hasResource>>
            ELSE /\ hasResource' = [q \in Procs |-> hasResource[q] \/ hasResource[p] \/ (r = "found")]
                 /\ resp' = resp
                 /\ IF Remaining(p) = {k}
                    THEN /\ idx' = [idx EXCEPT ![p] = @ + 1]
                         /\ pc' = [pc EXCEPT ![p] = "loop"]
                    ELSE UNCHANGED <<idx, pc>>
    /\ UNCHANGED <<config, req, round, first>>

\* for _, val := range device.GetDevices(): one call of MutateAdmission.
\* The vendors are visited in any order.
CallMatcher(p) ==
    /\ pc[p] = "matchers"
    /\ \E k \in Remaining(p) :
         LET r == MutateAdmission(pod[p].Containers[idx[p]], k) IN
         /\ called' = [called EXCEPT ![p] = @ \cup {<<idx[p], k>>}]
         /\ pod' = [pod EXCEPT ![p] = MutateAdmissionEffect(@)]
         /\ IF r = "err"
            THEN /\ resp' = [resp EXCEPT ![p] = Errored(500, "matcher error")]
                 /\ pc' = [pc EXCEPT ![p] = "done"]
                 /\ UNCHANGED <<idx, hasResource>>
            ELSE /\ hasResource' = [hasResource EXCEPT ![p] = @ \/ (r = "found")]
                 /\ resp' = resp
                 /\ IF Remaining(p) = {k}
                    THEN /\ idx' = [idx EXCEPT ![p] = @ + 1]
                         /\ pc' = [pc EXCEPT ![p] = "loop"]
                    ELSE UNCHANGED <<idx, pc>>
    /\ UNCHANGED <<config, req, round, first>>

\* variant: the name is assigned whether or not a resource was found
RewrittenAlways(p, has, cfg) ==
    IF cfg.SchedulerName # ""
    THEN [p EXCEPT !.SchedulerName = cfg.SchedulerName]
    ELSE p

\* variant: corev1.DefaultSchedulerName assigned in place of config.SchedulerName
RewrittenDefaultName(p, has, cfg) ==
    IF has /\ cfg.SchedulerName # ""
    THEN [p EXCEPT !.SchedulerName = DefaultSchedulerName]
    ELSE p

\* the pod after `pod.Spec.SchedulerName = config.SchedulerName`, when taken
Rewritten(p, has, cfg) ==
    IF has /\ cfg.SchedulerName # ""
    THEN [p EXCEPT !.SchedulerName = cfg.SchedulerName]
    ELSE p

\* if !hasResource {...} else if len(config.SchedulerName) > 0 {...};
\* json.Marshal(pod); PatchResponseFromRaw.  json.Marshal of a decoded pod
\* does not fail.
Finish(p) ==
    /\ pc[p] = "final"
    /\ pod' = [pod EXCEPT ![p] = Rewritten(@, hasResource[p], config)]
    /\ resp' = [resp EXCEPT ![p] =
                  IF hasResource[p] /\ config.SchedulerName # "" /\ pod[p].NodeName # ""
                  THEN Denied("pod has node assigned")
                  ELSE PatchResponseFromRaw(req[p].raw, Marshal(pod'[p]))]
    /\ pc' = [pc EXCEPT ![p] = "done"]
    /\ UNCHANGED <<config, req, idx, called, hasResource, round, first>>

\* the pod patched by an allowed, mutating response is submitted again: a new
\* call of Handle under the same configuration
Resubmit(p) ==
    /\ pc[p] = "done"
    /\ round[p] = 1
    /\ resp[p].kind = "Allowed"
    /\ resp[p].patch # {}
    /\ req' = [req EXCEPT ![p] = [wellformed |-> TRUE, raw |-> ApplyPatch(req[p].raw, resp[p].patch)]]
    /\ first' = [first EXCEPT ![p] = resp[p]]
    /\ round' = [round EXCEPT ![p] = 2]
    /\ pc' = [pc EXCEPT ![p] = "decode"]
    /\ pod' = [pod EXCEPT ![p] = EmptyPod]
    /\ idx' = [idx EXCEPT ![p] = 0]
    /\ called' = [called EXCEPT ![p] = {}]
    /\ hasResource' = [hasResource EXCEPT ![p] = FALSE]
    /\ resp' = [resp EXCEPT ![p] = NoResponse]
    /\ UNCHANGED config

Next ==
    \E p \in Procs :
        \/ Admit(p)
        \/ LoopContainer(p)
        \/ CallMatcher(p)
        \/ Finish(p)
        \/ Resubmit(p)

Spec == Init /\ [][Next]_vars

\* ------------------------------------------------- Handle as one function
\* The container loop from container i on: whether a MutateAdmission call
\* failed, and the accumulator otherwise.
RECURSIVE ScanFrom(_, _, _)
ScanFrom(cs, i, has) ==
    IF i > Len(cs)
    THEN [err |-> FALSE, has |-> has]
    ELSE IF IsPrivileged(cs[i])
    THEN ScanFrom(cs, i + 1, has)
    ELSE IF \E k \in Matchers : MutateAdmission(cs[i], k) = "err"
    THEN [err |-> TRUE, has |-> has]
    ELSE ScanFrom(cs, i + 1, has \/ \E k \in Matchers : MutateAdmission(cs[i], k) = "found")

\* the response of one call of Handle that runs alone
HandleAlone(r, cfg) ==
    LET early == EarlyExit(r, cfg)
        p == Decode(r.raw)
        scan == ScanFrom(p.Containers, 1, FALSE)
    IN  IF early # NoResponse THEN early
        ELSE IF scan.err THEN Errored(500, "matcher error")
        ELSE IF scan.has /\ cfg.SchedulerName # "" /\ p.NodeName # ""
        THEN Denied("pod has node assigned")
        ELSE PatchResponseFromRaw(r.raw, Marshal(Rewritten(p, scan.has, cfg)))

\* ------------------------------------------------ concurrent evaluations
\* the pods of the concurrent runs: one container each
ConcPods ==
    [SchedulerName : {"", "custom-other"}, NodeName : NodeNames,
     Containers : {<<c>> : c \in ContainerSpecs}]

ConcRequests == {[wellformed |-> TRUE, raw |-> Marshal(o)] : o \in ConcPods}

\* every evaluation of Procs handles its own request, all under one config
InitConc ==
    /\ config \in Configs
    /\ \E r \in [Procs -> ConcRequests] : Start(r)
    /\ pc = [p \in Procs |-> "decode"]

NextConc ==
    \E p \in Procs :
        \/ Admit(p)
        \/ LoopContainer(p)
        \/ CallMatcher(p)
        \/ Finish(p)

SpecConc == InitConc /\ [][NextConc]_vars

\* ================================================================ claims
\* the pod of evaluation p as it was submitted
Submitted(p) == Decode(req[p].raw)

\* evaluation p has returned a response for a decodable request
Finished(p) == pc[p] = "done" /\ req[p].wellformed

\* schedulerName is empty or the platform default
Eligible(o) == o.SchedulerName = "" \/ o.SchedulerName = DefaultSchedulerName

\* forceOverwrite, or the pod already carries a non-empty target name
Overrideable(o, cfg) ==
    cfg.ForceOverwriteDefaultScheduler
    \/ (cfg.SchedulerName # "" /\ o.SchedulerName = cfg.SchedulerName)

\* the containers whose privileged flag is not explicitly true
NonPrivileged(o) == {i \in DOMAIN o.Containers : o.Containers[i].Privileged # "true"}

\* some matcher answers res on some non-privileged container
Reports(o, res) ==
    \E i \in NonPrivileged(o) : \E k \in Matchers : o.Containers[i].Resources[k] = res

\* every container is explicitly privileged
AllPrivileged(o) == \A i \in DOMAIN o.Containers : o.Containers[i].Privileged = "true"

\* the scheduler name of the pod once the response's patch is applied
AdmittedName(p) == Decode(ApplyPatch(req[p].raw, resp[p].patch)).SchedulerName

\* Allow(unchanged): allowed, with an empty patch
AllowUnchanged(r) == r.kind = "Allowed" /\ r.patch = {}

\* the different-scheduler exit
DifferentSchedulerExit(r) ==
    r.kind = "Allowed" /\ r.reason = "pod already has different scheduler assigned"

\* C1: a pod with an empty or default schedulerName, no nodeName, a recognized
\* resource on a non-privileged container, no matcher failure and a non-empty
\* targetSchedulerName is allowed with its schedulerName rewritten to
\* targetSchedulerName, for either value of forceOverwrite.
C1_AllowMutated ==
    \A p \in Procs :
        (/\ Finished(p)
         /\ Eligible(Submitted(p))
         /\ Submitted(p).NodeName = ""
         /\ Reports(Submitted(p), "found")
         /\ ~Reports(Submitted(p), "err")
         /\ config.SchedulerName # "")
        => /\ resp[p].kind = "Allowed"
           /\ ~DifferentSchedulerExit(resp[p])
           /\ AdmittedName(p) = config.SchedulerName

\* C2: for a pod with at least one container the different-scheduler exit is
\* taken exactly when NOT(eligible OR overrideable); otherwise the evaluation
\* proceeds to resource scanning.
C2_ExitIffNotEligibleNorOverrideable ==
    \A p \in Procs :
        (/\ req[p].wellformed
         /\ Len(Submitted(p).Containers) > 0
         /\ pc[p] \notin {"decode", "off"})
        => /\ DifferentSchedulerExit(resp[p])
                <=> ~(Eligible(Submitted(p)) \/ Overrideable(Submitted(p), config))
           /\ (Eligible(Submitted(p)) \/ Overrideable(Submitted(p), config)) => idx[p] >= 1

\* C3: an eligible or overrideable pod with a nodeName, a recognized resource
\* on a non-privileged container, no matcher failure and a non-empty
\* targetSchedulerName is denied with "pod has node assigned", never allowed.
C3_NodeAssignedDenied ==
    \A p \in Procs :
        (/\ Finished(p)
         /\ Eligible(Submitted(p)) \/ Overrideable(Submitted(p), config)
         /\ Submitted(p).NodeName # ""
         /\ Reports(Submitted(p), "found")
         /\ ~Reports(Submitted(p), "err")
         /\ config.SchedulerName # "")
        => resp[p] = Denied("pod has node assigned")

\* C4: once past both early exits, a matcher failure on a non-privileged
\* container makes the response Error(cause), whatever was found elsewhere; the
\* failing call is the last call and no Allow or Deny is produced.
C4_MatcherFailureIsError ==
    \A p \in Procs :
        LET failed == {c \in called[p] : pod[p].Containers[c[1]].Resources[c[2]] = "err"} IN
        /\ failed # {} =>
              /\ pc[p] = "done"
              /\ resp[p] = Errored(500, "matcher error")
              /\ Cardinality(failed) = 1
              /\ \A c \in called[p] : \A f \in failed : c[1] <= f[1]
        /\ (Finished(p) /\ idx[p] >= 1 /\ Reports(Submitted(p), "err")) =>
              /\ resp[p] = Errored(500, "matcher error")
              /\ failed # {}

C4_Witness ==
    \E p \in Procs :
        /\ Finished(p)
        /\ resp[p].kind = "Errored"
        /\ Cardinality(called[p]) >= 2
        /\ hasResource[p]
        /\ Len(pod[p].Containers) > idx[p]

\* C5: a pod with zero containers is denied with "pod has no containers"
\* whatever schedulerName, nodeName and config are, before the
\* different-scheduler exit and without any matcher call.
C5_EmptyPodDenied ==
    \A p \in Procs :
        (Finished(p) /\ Len(Submitted(p).Containers) = 0)
        => /\ resp[p] = Denied("pod has no containers")
           /\ called[p] = {}
           /\ idx[p] = 0

C5_Witness ==
    \E p \in Procs :
        /\ Finished(p)
        /\ Len(Submitted(p).Containers) = 0
        /\ Submitted(p).SchedulerName = "custom-other"
        /\ Submitted(p).NodeName # ""
        /\ ~config.ForceOverwriteDefaultScheduler
        /\ resp[p].kind = "Denied"

\* C6 (as stated): a pod whose containers are all explicitly privileged gets
\* Allow(unchanged) with no matcher call, whatever nodeName and config are.
C6_AllPrivilegedAllowed ==
    \A p \in Procs :
        (Finished(p) /\ AllPrivileged(Submitted(p)))
        => /\ AllowUnchanged(resp[p])
           /\ called[p] = {}
           /\ ~hasResource[p]

\* C6 (amended): a pod with at least one container whose containers are all
\* explicitly privileged gets Allow(unchanged); no matcher is called at any
\* point and hasResource stays false, whatever the matchers would answer and
\* whatever nodeName and config are.
C6_NonEmptyAllPrivilegedAllowed ==
    \A p \in Procs :
        (/\ req[p].wellformed
         /\ Len(Submitted(p).Containers) > 0
         /\ AllPrivileged(Submitted(p)))
        => /\ called[p] = {}
           /\ ~hasResource[p]
           /\ pc[p] # "matchers"
           /\ pc[p] = "done" => AllowUnchanged(resp[p]) /\ AdmittedName(p) = Submitted(p).SchedulerName

C6_Witness ==
    \E p \in Procs :
        /\ Finished(p)
        /\ Len(Submitted(p).Containers) = MaxContainers
        /\ AllPrivileged(Submitted(p))
        /\ \E i \in DOMAIN Submitted(p).Containers, k \in Matchers :
              Submitted(p).Containers[i].Resources[k] = "found"
        /\ \E i \in DOMAIN Submitted(p).Containers, k \in Matchers :
              Submitted(p).Containers[i].Resources[k] = "err"
        /\ Submitted(p).NodeName # ""
        /\ config.SchedulerName # ""
        /\ idx[p] > Len(Submitted(p).Containers)
        /\ AllowUnchanged(resp[p])

\* C7: idempotence.  When the pod of an Allow(mutated) response is evaluated
\* again under the same config and matcher outputs, the response is
\* Allow(unchanged) and the schedulerName is still targetSchedulerName.
C7_Idempotent ==
    \A p \in Procs :
        (round[p] = 2 /\ pc[p] = "done")
        => /\ AllowUnchanged(resp[p])
           /\ Submitted(p).SchedulerName = config.SchedulerName
           /\ AdmittedName(p) = config.SchedulerName

C7_Witness ==
    \E p \in Procs :
        /\ round[p] = 2
        /\ pc[p] = "done"
        /\ first[p].patch # {}
        /\ AllowUnchanged(resp[p])

\* C8: a pod with at least one container whose schedulerName is non-empty,
\* not the default and not targetSchedulerName, with forceOverwrite false,
\* gets Allow(unchanged), and no matcher is called at any point.
C8_ForeignSchedulerShortCircuit ==
    \A p \in Procs :
        (/\ req[p].wellformed
         /\ Len(Submitted(p).Containers) > 0
         /\ Submitted(p).SchedulerName \notin {"", DefaultSchedulerName, config.SchedulerName}
         /\ ~config.ForceOverwriteDefaultScheduler)
        => /\ called[p] = {}
           /\ pc[p] \in {"decode", "done"}
           /\ pc[p] = "done" => AllowUnchanged(resp[p]) /\ idx[p] = 0

C8_Witness ==
    \E p \in Procs :
        /\ Finished(p)
        /\ Submitted(p).SchedulerName = "custom-other"
        /\ ~config.ForceOverwriteDefaultScheduler
        /\ config.SchedulerName = "hami-scheduler"
        /\ Reports(Submitted(p), "found")
        /\ AllowUnchanged(resp[p])

\* C9: when the scan ends without a matcher failure and nothing was found or
\* targetSchedulerName is empty, the response is Allow(unchanged) and the
\* schedulerName is the submitted one, also with a nodeName; a rewritten name
\* or the deny "pod has node assigned" occurs only when a resource was found
\* and targetSchedulerName is non-empty.
C9_NoResourceNoEffect ==
    \A p \in Procs :
        /\ (/\ Finished(p)
            /\ idx[p] > Len(Submitted(p).Containers)
            /\ ~Reports(Submitted(p), "err")
            /\ ~Reports(Submitted(p), "found") \/ config.SchedulerName = "")
           => /\ AllowUnchanged(resp[p])
              /\ AdmittedName(p) = Submitted(p).SchedulerName
        /\ (/\ Finished(p)
            /\ \/ AdmittedName(p) # Submitted(p).SchedulerName
               \/ pod[p].SchedulerName # Submitted(p).SchedulerName
               \/ resp[p] = Denied("pod has node assigned"))
           => /\ hasResource[p]
              /\ Reports(Submitted(p), "found")
              /\ config.SchedulerName # ""

C9_Witness ==
    \E p \in Procs :
        /\ Finished(p)
        /\ idx[p] > Len(Submitted(p).Containers)
        /\ hasResource[p]
        /\ config.SchedulerName = ""
        /\ Submitted(p).NodeName # ""
        /\ AllowUnchanged(resp[p])

\* C10: under every interleaving of concurrent evaluations, each evaluation
\* returns exactly one response, the one it returns when run alone; no step
\* writes the configuration or the state of another evaluation.
Local(p) == <<req[p], pod[p], pc[p], idx[p], called[p], hasResource[p], resp[p]>>

C10_Isolation ==
    /\ [](\A p \in Procs :
            /\ pc[p] = "done" => resp[p] = HandleAlone(req[p], config)
            /\ pc[p] # "done" => resp[p] = NoResponse)
    /\ [][/\ config' = config
          /\ \E p \in Procs : \A q \in Procs \ {p} : Local(q)' = Local(q)
          /\ \A p \in Procs : resp[p] # NoResponse => resp'[p] = resp[p]]_vars

C10_Witness ==
    /\ \A p \in Procs : pc[p] = "done"
    /\ resp[1].patch # {}
    /\ AllowUnchanged(resp[2])
    /\ ~DifferentSchedulerExit(resp[2])
    /\ Cardinality(called[1]) = Cardinality(Matchers)
    /\ Cardinality(called[2]) = Cardinality(Matchers)

====
